---- MODULE Spec2Model ----
(***************************************************************************)
(* Model of the family-tree relationship graph (family_tree/tree.py) and   *)
(* of the field validators and the Person entity (family_tree/models.py).  *)
(*                                                                         *)
(* Representation.                                                         *)
(*   - A Python Optional value is a sequence of length at most one:        *)
(*     None is <<>> and a present value x is <<x>>.                        *)
(*   - A Python str is a sequence of one-character strings, so that        *)
(*     strip(), split("-"), int() and len() are computed, not assumed.     *)
(*   - A datetime.date is a record [year, month, day].                     *)
(*   - The dict FamilyTree.people is a sequence of Person records in       *)
(*     insertion order (a Python dict keeps insertion order); the key of   *)
(*     an entry is the id field of the record.                             *)
(*   - A raised exception is a result record with ok = FALSE.              *)
(***************************************************************************)
EXTENDS Integers, Sequences, FiniteSets, TLC

VARIABLES people, next_id, last, details, forest, created, removed

vars == <<people, next_id, last, details, forest, created, removed>>

----------------------------------------------------------------------------
(* Optional values *)

None == <<>>

Some(x) == <<x>>

----------------------------------------------------------------------------
(* Results of a call that may raise *)

Ok(v) == [ok |-> TRUE, v |-> v, kind |-> "ok", field |-> "", message |-> ""]

\* models.py ValidationError(field, message)
ValidationError(field, message) ==
  [ok |-> FALSE, v |-> None, kind |-> "validation", field |-> field, message |-> message]

\* the ValueError raised by the graph operations; role names the id at fault
ValueError(kind, role) ==
  [ok |-> FALSE, v |-> None, kind |-> kind, field |-> role, message |-> ""]

----------------------------------------------------------------------------
(* str helpers *)

Whitespace == {" "}

Digits == {"0", "1", "2", "3", "4", "5", "6", "7", "8", "9"}

RECURSIVE lstrip(_)
lstrip(s) == IF s # <<>> /\ Head(s) \in Whitespace THEN lstrip(Tail(s)) ELSE s

RECURSIVE rstrip(_)
rstrip(s) ==
  IF s # <<>> /\ s[Len(s)] \in Whitespace THEN rstrip(SubSeq(s, 1, Len(s) - 1)) ELSE s

\* str.strip()
strip(s) == rstrip(lstrip(s))

\* str.split(sep): the pieces between the occurrences of sep
RECURSIVE split(_, _)
split(s, sep) ==
  IF \E i \in DOMAIN s : s[i] = sep
  THEN LET i == CHOOSE k \in DOMAIN s : s[k] = sep /\ \A j \in 1..(k - 1) : s[j] # sep
       IN <<SubSeq(s, 1, i - 1)>> \o split(SubSeq(s, i + 1, Len(s)), sep)
  ELSE <<s>>

DigitVal(c) ==
  CASE c = "0" -> 0 [] c = "1" -> 1 [] c = "2" -> 2 [] c = "3" -> 3 [] c = "4" -> 4
    [] c = "5" -> 5 [] c = "6" -> 6 [] c = "7" -> 7 [] c = "8" -> 8 [] c = "9" -> 9

DigitChar(n) ==
  CASE n = 0 -> "0" [] n = 1 -> "1" [] n = 2 -> "2" [] n = 3 -> "3" [] n = 4 -> "4"
    [] n = 5 -> "5" [] n = 6 -> "6" [] n = 7 -> "7" [] n = 8 -> "8" [] n = 9 -> "9"

RECURSIVE DigitsValue(_)
DigitsValue(s) ==
  IF s = <<>> THEN 0 ELSE 10 * DigitsValue(SubSeq(s, 1, Len(s) - 1)) + DigitVal(s[Len(s)])

\* int() of a str without surrounding whitespace and sign
ParseDigits(u) ==
  IF u # <<>> /\ \A i \in DOMAIN u : u[i] \in Digits
  THEN Ok(DigitsValue(u))
  ELSE ValueError("ValueError", "int")

\* int() of a str without surrounding whitespace
ParseSigned(t) == ParseDigits(IF t # <<>> /\ Head(t) = "+" THEN Tail(t) ELSE t)

\* int(str): surrounding whitespace is ignored, an optional "+" sign, then
\* decimal digits; anything else is a ValueError.  ("-" never reaches int()
\* here: validate_date splits on it.)
ParseInt(s) == ParseSigned(strip(s))

\* "%0<width>d" % n, for n >= 0
RECURSIVE ZeroPad(_, _)
ZeroPad(n, width) ==
  IF width = 0 THEN <<>> ELSE ZeroPad(n \div 10, width - 1) \o <<DigitChar(n % 10)>>

----------------------------------------------------------------------------
(* datetime.date *)

IsLeap(y) == (y % 4 = 0 /\ y % 100 # 0) \/ y % 400 = 0

DaysInMonth(y, m) ==
  IF m = 2 THEN (IF IsLeap(y) THEN 29 ELSE 28)
  ELSE IF m \in {4, 6, 9, 11} THEN 30 ELSE 31

\* date(year, month, day): ValueError unless it is a calendar date
\* (datetime.MINYEAR = 1, datetime.MAXYEAR = 9999)
MakeDate(y, m, d) ==
  IF /\ 1 <= y /\ y <= 9999
     /\ 1 <= m /\ m <= 12
     /\ 1 <= d /\ d <= DaysInMonth(y, m)
  THEN Ok([year |-> y, month |-> m, day |-> d])
  ELSE ValueError("ValueError", "date")

\* date.__lt__
DateLess(a, b) ==
  \/ a.year < b.year
  \/ a.year = b.year /\ a.month < b.month
  \/ a.year = b.year /\ a.month = b.month /\ a.day < b.day

\* date.isoformat(): YYYY-MM-DD
isoformat(d) == ZeroPad(d.year, 4) \o <<"-">> \o ZeroPad(d.month, 2) \o <<"-">> \o ZeroPad(d.day, 2)

----------------------------------------------------------------------------
(* models.py: field validators.  Arguments are as the callers pass them:    *)
(* Optional values, a year an int, a date a str.                            *)

\* validate_name, after `name = name.strip()`
CheckNameLength(n) ==
  IF Len(n) > 100
  THEN ValidationError("name", "Name cannot exceed 100 characters")
  ELSE Ok(n)

\* validate_name(name): name is a str (never None at the call sites that
\* reach it: add_person requires it, update_person skips None)
validate_name(name) ==
  IF name = <<>> \/ strip(name) = <<>>
  THEN ValidationError("name", "Name cannot be empty")
  ELSE CheckNameLength(strip(name))

\* validate_year(year, field_name)
validate_year(year, field_name) ==
  IF year = None THEN Ok(None)
  ELSE IF year[1] \notin Int
  THEN ValidationError(field_name, "Year must be an integer")
  ELSE IF year[1] < 1500 \/ year[1] > 2100
  THEN ValidationError(field_name, "Year must be between 1500 and 2100")
  ELSE Ok(year)

\* mutant: a death in the year of birth is refused
CheckDeathYear_Strict(r, birth_year) ==
  IF ~r.ok THEN r
  ELSE IF birth_year # None /\ r.v # None /\ r.v[1] <= birth_year[1]
  THEN ValidationError("death_year", "Death year cannot be before birth year")
  ELSE r

\* validate_death_year, after `death_year = validate_year(...)`, whose
\* outcome is r: its raise propagates
CheckDeathYear(r, birth_year) ==
  IF ~r.ok THEN r
  ELSE IF birth_year # None /\ r.v # None /\ r.v[1] < birth_year[1]
  THEN ValidationError("death_year", "Death year cannot be before birth year")
  ELSE r

\* validate_death_year(death_year, birth_year)
validate_death_year(death_year, birth_year) ==
  IF death_year = None THEN Ok(None)
  ELSE CheckDeathYear(validate_year(death_year, "death_year"), birth_year)

valid_genders == {<<"M">>, <<"F">>, <<"O", "t", "h", "e", "r">>}

\* validate_gender(gender)
validate_gender(gender) ==
  IF gender = None \/ gender = Some(<<>>) THEN Ok(None)
  ELSE IF gender[1] \notin valid_genders
  THEN ValidationError("gender", "Gender must be one of: M, F, Other")
  ELSE Ok(gender)

\* validate_date, after `parsed = date(year, month, day)`: this raise is a
\* ValidationError inside the try, which the except clause does not catch
CheckDateYear(parsed, field_name) ==
  IF parsed.year < 1500 \/ parsed.year > 2100
  THEN ValidationError(field_name, "Year must be between 1500 and 2100")
  ELSE Ok(Some(parsed))

\* the try block of validate_date; a ValueError of int() or date() goes to
\* the handler
ParseDate(parts, field_name, handler) ==
  LET TryExcept(r, K(_), except) == IF r.ok THEN K(r.v) ELSE except
  IN
  IF Len(parts) # 3 THEN handler
  ELSE TryExcept(ParseInt(parts[1]), LAMBDA year :
       TryExcept(ParseInt(parts[2]), LAMBDA month :
       TryExcept(ParseInt(parts[3]), LAMBDA day :
       TryExcept(MakeDate(year, month, day), LAMBDA parsed :
         CheckDateYear(parsed, field_name),
       handler), handler), handler), handler)

\* validate_date(date_str, field_name): date_str is None or a str
validate_date(date_str, field_name) ==
  IF date_str = None \/ date_str = Some(<<>>) THEN Ok(None)
  ELSE ParseDate(split(date_str[1], "-"), field_name,
                 ValidationError(field_name, "Date must be in YYYY-MM-DD format"))

\* validate_death_date, after `parsed = validate_date(...)`, whose outcome
\* is r: its raise propagates.  `if birth_date` is true of every date,
\* `elif birth_year` of every year but 0.
CheckDeathDate(r, birth_date, birth_year) ==
  IF ~r.ok \/ r.v = None THEN r
  ELSE IF birth_date # None /\ DateLess(r.v[1], birth_date[1])
  THEN ValidationError("death_date", "Death date cannot be before birth date")
  ELSE IF birth_date = None /\ birth_year # None /\ birth_year[1] # 0
          /\ r.v[1].year < birth_year[1]
  THEN ValidationError("death_date", "Death date cannot be before birth year")
  ELSE r

\* validate_death_date(death_date, birth_date, birth_year)
validate_death_date(death_date, birth_date, birth_year) ==
  IF death_date = None \/ death_date = Some(<<>>) THEN Ok(None)
  ELSE CheckDeathDate(validate_date(death_date, "death_date"), birth_date, birth_year)

\* validate_city, after `city = city.strip()`
CheckCityLength(c) ==
  IF Len(c) > 100
  THEN ValidationError("birth_city", "City name cannot exceed 100 characters")
  ELSE Ok(Some(c))

\* validate_city(city)
validate_city(city) ==
  IF city = None \/ city = Some(<<>>) THEN Ok(None)
  ELSE CheckCityLength(strip(city[1]))

----------------------------------------------------------------------------
(* models.py: Person *)

\* Person.__init__(id, name, birth_year, death_year, gender, birth_date,
\* death_date, birth_city): the validators run in the order of the
\* assignments; the first failure is raised and no Person exists.
\* validate_death_year gets the birth_year argument, validate_death_date
\* the validated self.birth_date and self.birth_year.
PersonInit(id, a) ==
  LET Try(r, K(_)) == IF r.ok THEN K(r.v) ELSE r
  IN
  Try(validate_name(a.name), LAMBDA name :
  Try(validate_year(a.birth_year, "birth_year"), LAMBDA birth_year :
  Try(validate_date(a.birth_date, "birth_date"), LAMBDA birth_date :
  Try(validate_death_year(a.death_year, a.birth_year), LAMBDA death_year :
  Try(validate_death_date(a.death_date, birth_date, birth_year), LAMBDA death_date :
  Try(validate_gender(a.gender), LAMBDA gender :
  Try(validate_city(a.birth_city), LAMBDA birth_city :
    Ok([id |-> id, name |-> name,
        birth_year |-> birth_year, death_year |-> death_year,
        gender |-> gender,
        birth_date |-> birth_date, death_date |-> death_date,
        birth_city |-> birth_city,
        parent_ids |-> <<>>, spouse_ids |-> <<>>, child_ids |-> <<>>]))))))))

\* Person.to_dict(): the JSON object of a person; a date is rendered by
\* isoformat(), an absent value is null (None)
to_dict(p) ==
  [id |-> p.id, name |-> p.name,
   birth_year |-> p.birth_year, death_year |-> p.death_year,
   gender |-> p.gender,
   birth_date |-> IF p.birth_date # None THEN Some(isoformat(p.birth_date[1])) ELSE None,
   death_date |-> IF p.death_date # None THEN Some(isoformat(p.death_date[1])) ELSE None,
   birth_city |-> p.birth_city,
   parent_ids |-> p.parent_ids, spouse_ids |-> p.spouse_ids, child_ids |-> p.child_ids]

\* dict.get(key, default) on a JSON object (a record; a missing key is a
\* field the record does not have)
DictGet(data, key, default) == IF key \in DOMAIN data THEN data[key] ELSE default

\* from_dict, after `person = cls(...)`, whose outcome is r: its raise
\* propagates; the edge lists are taken as they are
WithEdges(r, data) ==
  IF ~r.ok THEN r
  ELSE Ok([r.v EXCEPT !.parent_ids = DictGet(data, "parent_ids", <<>>),
                      !.spouse_ids = DictGet(data, "spouse_ids", <<>>),
                      !.child_ids = DictGet(data, "child_ids", <<>>)])

\* Person.from_dict(data): data["id"] and data["name"] raise KeyError when
\* missing; the constructor validates again
from_dict(data) ==
  IF "id" \notin DOMAIN data THEN ValueError("KeyError", "id")
  ELSE IF "name" \notin DOMAIN data THEN ValueError("KeyError", "name")
  ELSE WithEdges(PersonInit(data.id,
                  [name |-> data.name,
                   birth_year |-> DictGet(data, "birth_year", None),
                   death_year |-> DictGet(data, "death_year", None),
                   gender |-> DictGet(data, "gender", None),
                   birth_date |-> DictGet(data, "birth_date", None),
                   death_date |-> DictGet(data, "death_date", None),
                   birth_city |-> DictGet(data, "birth_city", None)]),
                 data)

----------------------------------------------------------------------------
(* tree.py: FamilyTree; ps is the dict self.people *)

\* the keys of self.people
Ids(ps) == {ps[i].id : i \in DOMAIN ps}

\* x in list
Contains(list, x) == \E i \in DOMAIN list : list[i] = x

\* mutant: the entries after x go with it
ListRemove_Truncating(list, x) ==
  IF Contains(list, x)
  THEN SubSeq(list, 1, (CHOOSE k \in DOMAIN list : list[k] = x /\ \A j \in 1..(k - 1) : list[j] # x) - 1)
  ELSE list

\* list.remove(x): the first occurrence goes
ListRemove(list, x) ==
  IF Contains(list, x)
  THEN LET i == CHOOSE k \in DOMAIN list : list[k] = x /\ \A j \in 1..(k - 1) : list[j] # x
       IN SubSeq(list, 1, i - 1) \o SubSeq(list, i + 1, Len(list))
  ELSE list

IndexOf(ps, id) == CHOOSE i \in DOMAIN ps : ps[i].id = id

\* FamilyTree.get_person(id): self.people.get(id)
get_person(ps, id) == IF id \in Ids(ps) THEN Some(ps[IndexOf(ps, id)]) ELSE None

\* self.people[key] = person: an existing key keeps its place in the order
DictSet(ps, key, person) ==
  IF key \in Ids(ps) THEN [ps EXCEPT ![IndexOf(ps, key)] = person] ELSE Append(ps, person)

\* del self.people[key]
DictDel(ps, key) ==
  LET i == IndexOf(ps, key) IN SubSeq(ps, 1, i - 1) \o SubSeq(ps, i + 1, Len(ps))

\* mutant: the self check is missing
validate_not_self_Off(id1, id2) == Ok(None)

\* FamilyTree._validate_not_self(id1, id2, relationship)
validate_not_self(id1, id2) ==
  IF id1 = id2 THEN ValueError("self", "") ELSE Ok(None)

\* FamilyTree._validate_person_exists(person_id, role)
validate_person_exists(ps, person_id, role) ==
  LET person == get_person(ps, person_id)
  IN IF person = None THEN ValueError("not_found", role) ELSE Ok(person[1])

\* mutant: the counter is set from the size of the collection
add_person_CountsPeople(ps, nid, a) ==
  IF ~PersonInit(nid, a).ok
  THEN [people |-> ps, next_id |-> nid, res |-> PersonInit(nid, a)]
  ELSE [people |-> DictSet(ps, nid, PersonInit(nid, a).v),
        next_id |-> Len(DictSet(ps, nid, PersonInit(nid, a).v)) + 1,
        res |-> PersonInit(nid, a)]

\* mutant: the id is taken before the Person is validated
add_person_TakesIdFirst(ps, nid, a) ==
  IF ~PersonInit(nid, a).ok
  THEN [people |-> ps, next_id |-> nid + 1, res |-> PersonInit(nid, a)]
  ELSE [people |-> DictSet(ps, nid, PersonInit(nid, a).v), next_id |-> nid + 1,
        res |-> PersonInit(nid, a)]

\* FamilyTree.add_person(...): the Person is built (and validated) first;
\* only then is it stored under next_id and the counter incremented
add_person(ps, nid, a) ==
  LET person == PersonInit(nid, a)
  IN IF ~person.ok
     THEN [people |-> ps, next_id |-> nid, res |-> person]
     ELSE [people |-> DictSet(ps, nid, person.v), next_id |-> nid + 1, res |-> person]

\* mutant: the child is put at the front of the list
AppendChild_AtFront(person, child_id) ==
  IF ~Contains(person.child_ids, child_id)
  THEN [person EXCEPT !.child_ids = <<child_id>> \o @] ELSE person

\* parent.child_ids.append(child_id) unless it is there already
AppendChild(person, child_id) ==
  IF ~Contains(person.child_ids, child_id)
  THEN [person EXCEPT !.child_ids = Append(@, child_id)] ELSE person

\* mutant: the child's side of the edge is not recorded
AppendParent_Forgotten(person, parent_id) == person

\* child.parent_ids.append(parent_id) unless it is there already
AppendParent(person, parent_id) ==
  IF ~Contains(person.parent_ids, parent_id)
  THEN [person EXCEPT !.parent_ids = Append(@, parent_id)] ELSE person

\* mutant: appended without looking
AppendSpouse_Always(person, other_id) == [person EXCEPT !.spouse_ids = Append(@, other_id)]

\* person.spouse_ids.append(other_id) unless it is there already
AppendSpouse(person, other_id) ==
  IF ~Contains(person.spouse_ids, other_id)
  THEN [person EXCEPT !.spouse_ids = Append(@, other_id)] ELSE person

\* mutant: the parent's list is extended before the child is looked up
add_parent_child_Early(ps, parent_id, child_id) ==
  IF parent_id = child_id THEN [people |-> ps, res |-> ValueError("self", "")]
  ELSE IF parent_id \notin Ids(ps) THEN [people |-> ps, res |-> ValueError("not_found", "Parent")]
  ELSE IF child_id \notin Ids(ps)
  THEN [people |-> [i \in DOMAIN ps |->
                     IF ps[i].id = parent_id
                     THEN [ps[i] EXCEPT !.child_ids =
                             IF Contains(@, child_id) THEN @ ELSE Append(@, child_id)]
                     ELSE ps[i]],
        res |-> ValueError("not_found", "Child")]
  ELSE [people |-> [i \in DOMAIN ps |->
                     IF ps[i].id = parent_id
                     THEN [ps[i] EXCEPT !.child_ids =
                             IF Contains(@, child_id) THEN @ ELSE Append(@, child_id)]
                     ELSE IF ps[i].id = child_id
                     THEN [ps[i] EXCEPT !.parent_ids =
                             IF Contains(@, parent_id) THEN @ ELSE Append(@, parent_id)]
                     ELSE ps[i]],
        res |-> Ok(<<parent_id, child_id>>)]

\* mutant: the child is looked up before the parent
add_parent_child_ChildFirst(ps, parent_id, child_id) ==
  IF parent_id = child_id THEN [people |-> ps, res |-> ValueError("self", "")]
  ELSE IF child_id \notin Ids(ps) THEN [people |-> ps, res |-> ValueError("not_found", "Child")]
  ELSE IF parent_id \notin Ids(ps)
  THEN [people |-> ps, res |-> ValueError("not_found", "Parent")]
  ELSE [people |-> [i \in DOMAIN ps |->
                     IF ps[i].id = parent_id THEN AppendChild(ps[i], child_id)
                     ELSE IF ps[i].id = child_id THEN AppendParent(ps[i], parent_id)
                     ELSE ps[i]],
        res |-> Ok(<<parent_id, child_id>>)]

\* FamilyTree.add_parent_child(parent_id, child_id)
add_parent_child(ps, parent_id, child_id) ==
  LET self == validate_not_self(parent_id, child_id)
      parent == validate_person_exists(ps, parent_id, "Parent")
      child == validate_person_exists(ps, child_id, "Child")
  IN IF ~self.ok THEN [people |-> ps, res |-> self]
     ELSE IF ~parent.ok THEN [people |-> ps, res |-> parent]
     ELSE IF ~child.ok THEN [people |-> ps, res |-> child]
     ELSE [people |-> [i \in DOMAIN ps |->
                        IF ps[i].id = parent_id THEN AppendChild(ps[i], child_id)
                        ELSE IF ps[i].id = child_id THEN AppendParent(ps[i], parent_id)
                        ELSE ps[i]],
           res |-> Ok(<<parent_id, child_id>>)]

\* FamilyTree.add_spouse(person1_id, person2_id)
add_spouse(ps, person1_id, person2_id) ==
  LET self == validate_not_self(person1_id, person2_id)
      person1 == validate_person_exists(ps, person1_id, "First person")
      person2 == validate_person_exists(ps, person2_id, "Second person")
  IN IF ~self.ok THEN [people |-> ps, res |-> self]
     ELSE IF ~person1.ok THEN [people |-> ps, res |-> person1]
     ELSE IF ~person2.ok THEN [people |-> ps, res |-> person2]
     ELSE [people |-> [i \in DOMAIN ps |->
                        IF ps[i].id = person1_id THEN AppendSpouse(ps[i], person2_id)
                        ELSE IF ps[i].id = person2_id THEN AppendSpouse(ps[i], person1_id)
                        ELSE ps[i]],
           res |-> Ok(<<person1_id, person2_id>>)]

\* mutant: the spouse lists are not scrubbed
Scrub_NoSpouse(other, person_id) ==
  [other EXCEPT !.parent_ids = ListRemove(@, person_id),
                !.child_ids = ListRemove(@, person_id)]

\* the body of the loop of remove_person, for one person `other`
Scrub(other, person_id) ==
  [other EXCEPT !.parent_ids = ListRemove(@, person_id),
                !.child_ids = ListRemove(@, person_id),
                !.spouse_ids = ListRemove(@, person_id)]

\* FamilyTree.remove_person(person_id)
remove_person(ps, person_id) ==
  LET person == validate_person_exists(ps, person_id, "Person")
  IN IF ~person.ok THEN [people |-> ps, res |-> person]
     ELSE [people |-> DictDel([i \in DOMAIN ps |-> Scrub(ps[i], person_id)], person_id),
           res |-> Ok(<<person_id>>)]

\* mutant: None is not assigned
Assign_UnlessNone(st, r, field) ==
  IF ~r.ok THEN [person |-> st.person, res |-> r]
  ELSE IF r.v = None THEN st
  ELSE [person |-> [st.person EXCEPT ![field] = r.v], res |-> st.res]

\* person.x = value, unless the validator raised
Assign(st, r, field) ==
  IF ~r.ok THEN [person |-> st.person, res |-> r]
  ELSE [person |-> [st.person EXCEPT ![field] = r.v], res |-> st.res]

\* `validate(x) if x else None`: "" does not reach the validator
UnlessEmpty(x, r) == IF x = Some(<<>>) THEN Ok(None) ELSE r

\* the assignments of update_person on the person found, in source order.
\* UpdateField is one `if x is not None: person.x = validate(...)`: st is
\* the person as mutated so far and the exception raised so far, V(person)
\* the validator's result.  A raise ends the call: the assignments already
\* made stay, this one and the later ones are not made.
UpdateFields(person, a) ==
  LET UpdateField(st, present, V(_), field) ==
        IF ~st.res.ok \/ ~present THEN st ELSE Assign(st, V(st.person), field)
  IN
  UpdateField(
  UpdateField(
  UpdateField(
  UpdateField(
  UpdateField(
  UpdateField(
  UpdateField([person |-> person, res |-> Ok(None)],
    a.name # None, LAMBDA p : validate_name(a.name[1]), "name"),
    a.birth_year # None, LAMBDA p : validate_year(a.birth_year, "birth_year"), "birth_year"),
    a.birth_date # None,
      LAMBDA p : UnlessEmpty(a.birth_date, validate_date(a.birth_date, "birth_date")),
      "birth_date"),
    a.death_year # None,
      LAMBDA p : validate_death_year(a.death_year, p.birth_year), "death_year"),
    a.death_date # None,
      LAMBDA p : UnlessEmpty(a.death_date,
                             validate_death_date(a.death_date, p.birth_date, p.birth_year)),
      "death_date"),
    a.gender # None, LAMBDA p : UnlessEmpty(a.gender, validate_gender(a.gender)), "gender"),
    a.birth_city # None,
      LAMBDA p : UnlessEmpty(a.birth_city, validate_city(a.birth_city)), "birth_city")

\* mutant: the first person of the collection is the one written
StoreUpdated_First(ps, person_id, u) ==
  [people |-> [ps EXCEPT ![1] = u.person],
   res |-> IF u.res.ok THEN Ok(<<person_id>>) ELSE u.res]

\* update_person, after `person = self._validate_person_exists(...)`: the
\* Person object is mutated in place, so what was assigned before a raise
\* is in the collection
StoreUpdated(ps, person_id, u) ==
  [people |-> [ps EXCEPT ![IndexOf(ps, person_id)] = u.person],
   res |-> IF u.res.ok THEN Ok(<<person_id>>) ELSE u.res]

\* FamilyTree.update_person(person_id, name, birth_year, death_year, gender,
\* birth_date, death_date, birth_city)
update_person(ps, person_id, a) ==
  IF get_person(ps, person_id) = None
  THEN [people |-> ps, res |-> validate_person_exists(ps, person_id, "Person")]
  ELSE StoreUpdated(ps, person_id, UpdateFields(get_person(ps, person_id)[1], a))

\* mutant: the ids that do not resolve are kept
Resolve_Keeping(ps, ids) == ids

\* [self.get_person(x) for x in ids], then `if p`: the ids that resolve
Resolve(ps, ids) == SelectSeq(ids, LAMBDA x : x \in Ids(ps))

\* the ids in parent.child_ids
ChildIdSet(person) == {person.child_ids[j] : j \in DOMAIN person.child_ids}

\* mutant: only the first parent's children are gathered
get_siblings_FirstParent(ps, person_id) ==
  LET person == get_person(ps, person_id)
  IN IF person = None \/ person[1].parent_ids = <<>> THEN {}
     ELSE {sid \in UNION {ChildIdSet(get_person(ps, q)[1]) \ {person_id} :
                            q \in {person[1].parent_ids[1]} \cap Ids(ps)} : sid \in Ids(ps)}

\* mutant: the person is not left out of the children gathered
get_siblings_WithSelf(ps, person_id) ==
  LET person == get_person(ps, person_id)
  IN IF person = None \/ person[1].parent_ids = <<>> THEN {}
     ELSE {sid \in UNION {ChildIdSet(get_person(ps, q)[1]) :
                            q \in {person[1].parent_ids[i] : i \in DOMAIN person[1].parent_ids}
                                    \cap Ids(ps)} : sid \in Ids(ps)}

\* FamilyTree._get_siblings(person_id): the set `siblings` of ids gathered
\* from the parents that resolve, and of it the ids that resolve
get_siblings(ps, person_id) ==
  LET person == get_person(ps, person_id)
  IN IF person = None \/ person[1].parent_ids = <<>> THEN {}
     ELSE LET parents == {person[1].parent_ids[i] : i \in DOMAIN person[1].parent_ids}
              siblings == UNION {ChildIdSet(get_person(ps, q)[1]) \ {person_id} :
                                   q \in parents \cap Ids(ps)}
          IN {sid \in siblings : sid \in Ids(ps)}

NoDetails == [parents |-> <<>>, spouses |-> <<>>, children |-> <<>>, siblings |-> {}]

\* FamilyTree.get_person_details(person_id); persons are named by their ids
get_person_details(ps, person_id) ==
  LET person == validate_person_exists(ps, person_id, "Person")
  IN IF ~person.ok THEN [details |-> NoDetails, res |-> person]
     ELSE [details |-> [parents |-> Resolve(ps, person.v.parent_ids),
                        spouses |-> Resolve(ps, person.v.spouse_ids),
                        children |-> Resolve(ps, person.v.child_ids),
                        siblings |-> get_siblings(ps, person_id)],
           res |-> Ok(<<person_id>>)]

\* mutant: a person met again is not marked
TruncatedNode_Unmarked(person_id) ==
  [person |-> person_id, spouses |-> <<>>, children |-> <<>>, truncated |-> FALSE]

\* the node of a person met again: {"person": person, "spouses": [],
\* "children": [], "truncated": True}
TruncatedNode(person_id) ==
  [person |-> person_id, spouses |-> <<>>, children |-> <<>>, truncated |-> TRUE]

\* the node returned at the end of _build_tree_node; b is the outcome of
\* the loop over child_ids: the children's nodes and the set `visited`
ExpandedNode(ps, person, b) ==
  [node |-> [person |-> person.id, spouses |-> Resolve(ps, person.spouse_ids),
             children |-> b.nodes, truncated |-> FALSE],
   visited |-> b.visited]

\* mutant: the node is put before those of the earlier children
AppendNode_AtFront(nodes, r) == [nodes |-> <<r.node>> \o nodes, visited |-> r.visited]

\* children_nodes.append(node) and the set `visited` as the call left it
AppendNode(nodes, r) == [nodes |-> Append(nodes, r.node), visited |-> r.visited]

\* FamilyTree._build_tree_node(person, visited) and its loop over
\* person.child_ids[k..]: `visited` is one mutable set, so what a call adds
\* is seen by the calls after it; the outcome is the node and that set
RECURSIVE build_tree_node(_, _, _)
RECURSIVE BuildChildren(_, _, _, _)
build_tree_node(ps, person, visited) ==
  IF person.id \in visited THEN [node |-> TruncatedNode(person.id), visited |-> visited]
  ELSE ExpandedNode(ps, person,
         BuildChildren(ps, person.child_ids, 1,
                       [nodes |-> <<>>, visited |-> visited \cup {person.id}]))

BuildChildren(ps, child_ids, k, acc) ==
  IF k > Len(child_ids) THEN acc
  ELSE IF get_person(ps, child_ids[k]) = None THEN BuildChildren(ps, child_ids, k + 1, acc)
  ELSE BuildChildren(ps, child_ids, k + 1,
         AppendNode(acc.nodes,
                    build_tree_node(ps, get_person(ps, child_ids[k])[1], acc.visited)))

\* mutant: every person is a root
TreeRoots_Everybody(ps) == ps

\* [p for p in self.people.values() if not p.parent_ids], or the first
\* person when there is none
TreeRoots(ps) ==
  IF SelectSeq(ps, LAMBDA q : q.parent_ids = <<>>) = <<>> THEN <<ps[1]>>
  ELSE SelectSeq(ps, LAMBDA q : q.parent_ids = <<>>)

\* FamilyTree.get_tree_data(root_id): root_id is None or an int; `if
\* root_id` is false of None and of 0.  Every root gets a set() of its own.
get_tree_data(ps, root_id) ==
  IF ps = <<>> THEN Ok(<<>>)
  ELSE IF root_id # None /\ root_id[1] # 0
  THEN IF get_person(ps, root_id[1]) = None THEN ValueError("not_found", "Person")
       ELSE Ok(<<build_tree_node(ps, get_person(ps, root_id[1])[1], {}).node>>)
  ELSE Ok([i \in DOMAIN TreeRoots(ps) |-> build_tree_node(ps, TreeRoots(ps)[i], {}).node])

----------------------------------------------------------------------------
(* tree.py: persistence.  json.dump followed by json.load gives back the    *)
(* same ints, strs, lists, nulls and objects, so the document is the data.  *)

\* FamilyTree.save(filename): the document written
save(ps, nid) == [next_id |-> nid, people |-> [i \in DOMAIN ps |-> to_dict(ps[i])]]

\* self.people[person.id] = person
StorePerson(ps, person) == DictSet(ps, person.id, person)

\* the loop of load over data["people"][k..]: from_dict, then
\* self.people[person.id] = person; a raise leaves what was stored so far
RECURSIVE LoadPeople(_, _, _)
LoadPeople(ps, list, k) ==
  IF k > Len(list) THEN [people |-> ps, res |-> Ok(None)]
  ELSE IF ~from_dict(list[k]).ok THEN [people |-> ps, res |-> from_dict(list[k])]
  ELSE LoadPeople(StorePerson(ps, from_dict(list[k]).v), list, k + 1)

\* the outcome of load: KeyError is caught and raised again as
\* ValueError("Error loading file"); a ValidationError is not caught
LoadOutcome(res) ==
  IF res.ok THEN Ok(TRUE)
  ELSE IF res.kind = "KeyError" THEN ValueError("load_error", res.field)
  ELSE res

\* load, after `self.next_id = data.get("next_id", 1)`: r is the loop's result
Loaded(new_id, r) == [people |-> r.people, next_id |-> new_id, res |-> LoadOutcome(r.res)]

\* mutant: the persons of the document are stored over those in memory
load_Merging(ps, nid, data) ==
  Loaded(DictGet(data, "next_id", 1), LoadPeople(ps, DictGet(data, "people", <<>>), 1))

\* FamilyTree.load(filename) on a file that exists and parses to `data`:
\* next_id and people are reset before the loop, so the assignments made
\* before a raise stay
load(ps, nid, data) ==
  Loaded(DictGet(data, "next_id", 1), LoadPeople(<<>>, DictGet(data, "people", <<>>), 1))

\* mutant: a file that does not exist empties the collection
LoadFile_Resetting(ps, nid, file) ==
  IF ~file.exists THEN [people |-> <<>>, next_id |-> 1, res |-> Ok(FALSE)]
  ELSE IF ~file.json
  THEN [people |-> ps, next_id |-> nid, res |-> ValueError("load_error", "JSONDecodeError")]
  ELSE load(ps, nid, file.data)

\* FamilyTree.load(filename): a file that does not exist gives False and
\* one that json.load cannot parse gives JSONDecodeError, raised again as
\* ValueError("Error loading file"), both before anything is assigned; res.v
\* is the value returned
LoadFile(ps, nid, file) ==
  IF ~file.exists THEN [people |-> ps, next_id |-> nid, res |-> Ok(FALSE)]
  ELSE IF ~file.json
  THEN [people |-> ps, next_id |-> nid, res |-> ValueError("load_error", "JSONDecodeError")]
  ELSE load(ps, nid, file.data)

----------------------------------------------------------------------------
(* Inputs *)

\* the most ids ever assigned, and the most edges ever present
MaxId == 3

MaxEdges == 2

\* the most ids ever assigned under the field specification
MaxFieldId == 1

\* the most ids ever assigned, and the most edges ever present, under the
\* tree specification
MaxTreeId == 3

MaxTreeEdges == 2

\* the most add_person calls that succeed under the load specification
MaxLoadId == 2

\* the ids the callers pass: every id that is ever assigned (an id not yet
\* assigned, or removed, is an absent id)
IdArgs == 1..MaxId

\* the ids the callers pass under the field specification: those ever
\* assigned and one that never is
FieldIdArgs == 1..(MaxFieldId + 1)

\* add_person(name) with the defaults for the rest
NameOnly(name) ==
  [name |-> name, birth_year |-> None, death_year |-> None, gender |-> None,
   birth_date |-> None, death_date |-> None, birth_city |-> None]

\* update_person(id) with no field supplied
NoFields ==
  [name |-> None, birth_year |-> None, death_year |-> None, gender |-> None,
   birth_date |-> None, death_date |-> None, birth_city |-> None]

\* the ids the callers pass under the load specification: those add_person
\* assigns from the empty graph and those of the documents
LoadIdArgs == 1..(MaxLoadId + 1)

\* the root_id arguments of get_tree_data: none, 0, the ids ever assigned
\* and those of the documents
RootArgs == {None} \cup {Some(i) : i \in 0..(MaxTreeId + 1)}

\* the ints passed to validate_death_year: around the ends of the range of
\* validate_year, inside it, and far from it
YearValues == {-1, 0, 1499, 1500, 1501, 1950, 1951, 2099, 2100, 2101, 3000}

\* the arguments of validate_death_year: None or an int
YearArgs == {None} \cup {Some(y) : y \in YearValues}

\* a str of n characters
Chars(n) == [i \in 1..n |-> "x"]

\* "YYYY-MM-DD" literals
d1950_01_15 == <<"1", "9", "5", "0", "-", "0", "1", "-", "1", "5">>

d2000_02_29 == <<"2", "0", "0", "0", "-", "0", "2", "-", "2", "9">>

d1950_02_30 == <<"1", "9", "5", "0", "-", "0", "2", "-", "3", "0">>

d1400_01_01 == <<"1", "4", "0", "0", "-", "0", "1", "-", "0", "1">>

d1949_12_31 == <<"1", "9", "4", "9", "-", "1", "2", "-", "3", "1">>

\* create calls of the graph specification: a valid one and one that fails
CreateInputs == {NameOnly(<<"A">>), NameOnly(<<" ">>)}

\* update calls of the graph specification: a valid one and one that fails
UpdateInputs == {[NoFields EXCEPT !.name = Some(<<" ", "A">>)],
                 [NoFields EXCEPT !.gender = Some(<<"X">>)]}

\* add_person("Bo", 1950, 2000, "M", "1950-01-15", "2000-02-29", " X ")
FullPerson ==
  [name |-> <<" ", "B", "o", " ">>, birth_year |-> Some(1950), death_year |-> Some(2000),
   gender |-> Some(<<"M">>), birth_date |-> Some(d1950_01_15),
   death_date |-> Some(d2000_02_29), birth_city |-> Some(<<" ", "X", " ">>)]

\* create calls of the field specification: valid ones, and one failing at
\* each raise of the validators
FieldCreateInputs ==
  {NameOnly(<<"A">>),
   FullPerson,
   [NameOnly(<<"A">>) EXCEPT !.birth_city = Some(<<" ", " ">>)],
   NameOnly(<<>>),
   NameOnly(Chars(101)),
   [NameOnly(<<"A">>) EXCEPT !.birth_year = Some(1499)],
   [NameOnly(<<"A">>) EXCEPT !.birth_year = Some(1950), !.death_year = Some(1949)],
   [NameOnly(<<"A">>) EXCEPT !.death_year = Some(2101)],
   [NameOnly(<<"A">>) EXCEPT !.gender = Some(<<"m">>)],
   [NameOnly(<<"A">>) EXCEPT !.birth_date = Some(d1950_02_30)],
   [NameOnly(<<"A">>) EXCEPT !.birth_date = Some(d1400_01_01)],
   [FullPerson EXCEPT !.death_date = Some(d1949_12_31)],
   [NameOnly(<<"A">>) EXCEPT !.birth_year = Some(1950), !.death_date = Some(d1949_12_31)],
   [NameOnly(<<"A">>) EXCEPT !.birth_city = Some(Chars(101))]}

\* update calls of the field specification
FieldUpdateInputs ==
  {[NoFields EXCEPT !.birth_year = Some(2001)],
   [NoFields EXCEPT !.name = Some(<<"C">>), !.birth_year = Some(1499)],
   [NoFields EXCEPT !.death_year = Some(1999)],
   [NoFields EXCEPT !.death_date = Some(d1949_12_31)],
   [NoFields EXCEPT !.gender = Some(<<>>), !.birth_city = Some(<<>>),
                    !.birth_date = Some(<<>>), !.death_date = Some(<<>>)]}

\* the JSON object of a person with a name and edge lists, as to_dict
\* writes it
DocPerson(id, name, parent_ids, spouse_ids, child_ids) ==
  [id |-> id, name |-> name, birth_year |-> None, death_year |-> None, gender |-> None,
   birth_date |-> None, death_date |-> None, birth_city |-> None,
   parent_ids |-> parent_ids, spouse_ids |-> spouse_ids, child_ids |-> child_ids]

\* a file that exists and holds the JSON document data
JsonFile(data) == [exists |-> TRUE, json |-> TRUE, data |-> data]

\* the files of the load specification: none, unparsable text, a saved
\* graph of a parent and a child, a document without next_id, one with an
\* id twice, then one entry without a name, one without an id and one with
\* a year out of range
LoadFiles ==
  << [exists |-> FALSE, json |-> FALSE, data |-> <<>>],
     [exists |-> TRUE, json |-> FALSE, data |-> <<>>],
     JsonFile([next_id |-> 4,
               people |-> << DocPerson(2, <<"D">>, <<>>, <<>>, <<3>>),
                             DocPerson(3, <<"E">>, <<2>>, <<>>, <<>>) >>]),
     JsonFile([people |-> << DocPerson(1, <<" ", "D">>, <<>>, <<>>, <<>>) >>]),
     JsonFile([next_id |-> 4,
               people |-> << DocPerson(2, <<"D">>, <<>>, <<>>, <<>>),
                             DocPerson(3, <<"E">>, <<>>, <<>>, <<>>),
                             DocPerson(2, <<"F">>, <<>>, <<>>, <<>>) >>]),
     JsonFile([next_id |-> 4,
               people |-> << DocPerson(2, <<"D">>, <<>>, <<>>, <<>>), [id |-> 3] >>]),
     JsonFile([next_id |-> 4, people |-> << [name |-> <<"D">>] >>]),
     JsonFile([next_id |-> 4,
               people |-> << DocPerson(2, <<"D">>, <<>>, <<>>, <<>>),
                             [DocPerson(3, <<"E">>, <<>>, <<>>, <<>>)
                                EXCEPT !.birth_year = Some(1499)] >>]) >>

\* the files of the tree specification.  The first is the graph saved after
\* add_parent_child(2, 3), (3, 2), (2, 1) on three persons: everybody has a
\* parent.  The second holds a couple 2, 1, in this order, with the children
\* 3, 4 of both, and edge lists naming 9, which is no person of the document.
\* The third is the graph saved after add_parent_child(1, 2), (1, 3), (2, 4),
\* (3, 4), (4, 1) on four persons: 4 is reached from 1 along two paths, and 1
\* from 4.
TreeFiles ==
  << JsonFile([next_id |-> 4,
               people |-> << DocPerson(1, <<"A">>, <<2>>, <<>>, <<>>),
                             DocPerson(2, <<"A">>, <<3>>, <<>>, <<3, 1>>),
                             DocPerson(3, <<"A">>, <<2>>, <<>>, <<2>>) >>]),
     JsonFile([next_id |-> 5,
               people |-> << DocPerson(2, <<"B">>, <<>>, <<1>>, <<3, 9, 4>>),
                             DocPerson(1, <<"A">>, <<>>, <<9, 2>>, <<3, 4>>),
                             [DocPerson(3, <<"C">>, <<1, 2>>, <<>>, <<9>>)
                                EXCEPT !.gender = Some(<<"M">>)],
                             DocPerson(4, <<"D">>, <<1, 9, 2>>, <<>>, <<>>) >>]),
     JsonFile([next_id |-> 5,
               people |-> << DocPerson(1, <<"A">>, <<4>>, <<>>, <<2, 3>>),
                             DocPerson(2, <<"A">>, <<1>>, <<>>, <<4>>),
                             DocPerson(3, <<"A">>, <<1>>, <<>>, <<4>>),
                             DocPerson(4, <<"A">>, <<2, 3>>, <<>>, <<1>>) >>]) >>

\* the file of the update specification: the graph saved after
\* add_parent_child(1, 2) and add_spouse(1, 2) on two persons; 1 has every
\* field, 2 a name and a gender
UpdateFiles ==
  << JsonFile([next_id |-> 3,
               people |-> << [DocPerson(1, <<"B", "o">>, <<>>, <<2>>, <<2>>)
                                EXCEPT !.birth_year = Some(1950), !.death_year = Some(2000),
                                       !.gender = Some(<<"M">>),
                                       !.birth_date = Some(d1950_01_15),
                                       !.death_date = Some(d2000_02_29),
                                       !.birth_city = Some(<<"X">>)],
                             [DocPerson(2, <<"A">>, <<1>>, <<1>>, <<>>)
                                EXCEPT !.gender = Some(<<"F">>)] >>]) >>

Files == LoadFiles \o TreeFiles \o UpdateFiles

\* the files by their place in Files
LoadFileArgs == DOMAIN LoadFiles

TreeFileArgs == {Len(LoadFiles) + k : k \in DOMAIN TreeFiles}

UpdateFileArgs == {Len(LoadFiles) + Len(TreeFiles) + k : k \in DOMAIN UpdateFiles}

\* the ids the callers pass under the update specification: those of the
\* file and one that is absent
UpdateIdArgs == {1, 2, 3}

\* update calls of the update specification: a name that is stripped, the
\* years, a name followed by a year that fails, each of the fields that ""
\* clears, and "" as a name
UpdateCalls ==
  << [NoFields EXCEPT !.name = Some(<<" ", "D", " ">>)],
     [NoFields EXCEPT !.birth_year = Some(2001)],
     [NoFields EXCEPT !.death_year = Some(2001)],
     [NoFields EXCEPT !.name = Some(<<"E">>), !.birth_year = Some(1499)],
     [NoFields EXCEPT !.gender = Some(<<>>)],
     [NoFields EXCEPT !.birth_city = Some(<<>>)],
     [NoFields EXCEPT !.birth_date = Some(<<>>)],
     [NoFields EXCEPT !.death_date = Some(<<>>)],
     [NoFields EXCEPT !.name = Some(<<>>)] >>

----------------------------------------------------------------------------
(* State machine: one action per public operation of FamilyTree.           *)
(*   last     the last call: its name, id arguments (-1: none), outcome    *)
(*            (kind: "ok" or the exception; field: the field or role at    *)
(*            fault), the id it returned (-1: none), and n: the number of  *)
(*            edge-list entries it appended (a link call) or found         *)
(*            pointing at the removed id (remove_person); for              *)
(*            update_person also args, the field arguments; for load, a    *)
(*            is the file and ret is 1 when it returned True, else 0       *)
(*   details  what the last get_person_details returned                    *)
(*   forest   what the last get_tree_data returned                         *)
(*   created  history: how many add_person calls have succeeded            *)
(*   removed  history: the ids removed so far                              *)

Call(op, a, b, res, ret, n) ==
  [op |-> op, a |-> a, b |-> b, kind |-> res.kind, field |-> res.field, ret |-> ret, n |-> n]

\* how many entries of list are x
RECURSIVE Count(_, _)
Count(list, x) ==
  IF list = <<>> THEN 0 ELSE (IF Head(list) = x THEN 1 ELSE 0) + Count(Tail(list), x)

\* the entries of all edge lists; every edge has two
RECURSIVE EdgeEntries(_)
EdgeEntries(ps) ==
  IF ps = <<>> THEN 0
  ELSE Len(Head(ps).parent_ids) + Len(Head(ps).child_ids) + Len(Head(ps).spouse_ids)
       + EdgeEntries(Tail(ps))

\* the entries of all edge lists that are id
RECURSIVE Refs(_, _)
Refs(ps, id) ==
  IF ps = <<>> THEN 0
  ELSE Count(Head(ps).parent_ids, id) + Count(Head(ps).child_ids, id)
       + Count(Head(ps).spouse_ids, id) + Refs(Tail(ps), id)

Init ==
  /\ people = <<>>
  /\ next_id = 1
  /\ last = [op |-> "init", a |-> -1, b |-> -1, kind |-> "ok", field |-> "", ret |-> -1,
             n |-> 0]
  /\ details = NoDetails
  /\ forest = <<>>
  /\ created = 0
  /\ removed = {}

AddPerson(a) ==
  \E r \in {add_person(people, next_id, a)} :
     /\ people' = r.people
     /\ next_id' = r.next_id
     /\ last' = Call("add_person", -1, -1, r.res, IF r.res.ok THEN next_id ELSE -1, 0)
     /\ created' = IF r.res.ok THEN created + 1 ELSE created
     /\ details' = NoDetails
     /\ forest' = <<>>
     /\ UNCHANGED removed

UpdatePerson(id, a) ==
  \E r \in {update_person(people, id, a)} :
     /\ people' = r.people
     /\ last' = Call("update_person", id, -1, r.res, -1, 0) @@ [args |-> a]
     /\ details' = NoDetails
     /\ forest' = <<>>
     /\ UNCHANGED <<next_id, created, removed>>

AddParentChild(parent_id, child_id) ==
  \E r \in {add_parent_child(people, parent_id, child_id)} :
     /\ people' = r.people
     /\ last' = Call("add_parent_child", parent_id, child_id, r.res, -1,
                     EdgeEntries(r.people) - EdgeEntries(people))
     /\ details' = NoDetails
     /\ forest' = <<>>
     /\ UNCHANGED <<next_id, created, removed>>

AddSpouse(person1_id, person2_id) ==
  \E r \in {add_spouse(people, person1_id, person2_id)} :
     /\ people' = r.people
     /\ last' = Call("add_spouse", person1_id, person2_id, r.res, -1,
                     EdgeEntries(r.people) - EdgeEntries(people))
     /\ details' = NoDetails
     /\ forest' = <<>>
     /\ UNCHANGED <<next_id, created, removed>>

RemovePerson(id) ==
  \E r \in {remove_person(people, id)} :
     /\ people' = r.people
     /\ last' = Call("remove_person", id, -1, r.res, -1,
                     IF r.res.ok THEN Refs(people, id) ELSE 0)
     /\ removed' = IF r.res.ok THEN removed \cup {id} ELSE removed
     /\ details' = NoDetails
     /\ forest' = <<>>
     /\ UNCHANGED <<next_id, created>>

GetPersonDetails(id) ==
  \E r \in {get_person_details(people, id)} :
     /\ last' = Call("get_person_details", id, -1, r.res, -1, 0)
     /\ details' = r.details
     /\ forest' = <<>>
     /\ UNCHANGED <<people, next_id, created, removed>>

GetTreeData(root_id) ==
  \E r \in {get_tree_data(people, root_id)} :
     /\ last' = Call("get_tree_data", IF root_id = None THEN -1 ELSE root_id[1], -1, r, -1, 0)
     /\ forest' = r.v
     /\ details' = NoDetails
     /\ UNCHANGED <<people, next_id, created, removed>>

\* load of Files[k]; ret is 1 when load returned True and 0 when False
Load(k) ==
  \E r \in {LoadFile(people, next_id, Files[k])} :
     /\ people' = r.people
     /\ next_id' = r.next_id
     /\ last' = Call("load", k, -1, r.res, IF r.res.ok /\ r.res.v THEN 1 ELSE 0, 0)
     /\ details' = NoDetails
     /\ forest' = <<>>
     /\ UNCHANGED <<created, removed>>

\* the calls are bounded by the ids assigned: at the bound only a create
\* that fails is made
Create ==
  \E a \in CreateInputs : AddPerson(a) /\ (next_id <= MaxId \/ last'.kind # "ok")

Update == \E id \in IdArgs, a \in UpdateInputs : UpdatePerson(id, a)

LinkParentChild ==
  \E p, c \in IdArgs : AddParentChild(p, c) /\ EdgeEntries(people') <= 2 * MaxEdges

LinkSpouse ==
  \E p, q \in IdArgs : AddSpouse(p, q) /\ EdgeEntries(people') <= 2 * MaxEdges

Remove == \E id \in IdArgs : RemovePerson(id)

Details == \E id \in IdArgs : GetPersonDetails(id)

Next == Create \/ Update \/ LinkParentChild \/ LinkSpouse \/ Remove \/ Details

\* the graph specification: all operations, few field values
Spec == Init /\ [][Next]_vars

CreateFields ==
  \E a \in FieldCreateInputs :
    AddPerson(a) /\ (next_id <= MaxFieldId \/ last'.kind # "ok")

UpdateFieldsOf == \E id \in FieldIdArgs, a \in FieldUpdateInputs : UpdatePerson(id, a)

RemoveOf == \E id \in FieldIdArgs : RemovePerson(id)

NextFields == CreateFields \/ UpdateFieldsOf \/ RemoveOf

\* the field specification: create, update and remove over many field values
SpecFields == Init /\ [][NextFields]_vars

CreateOf ==
  \E a \in CreateInputs : AddPerson(a) /\ (created < MaxLoadId \/ last'.kind # "ok")

LinkParentChildOf ==
  \E p, c \in LoadIdArgs : AddParentChild(p, c) /\ EdgeEntries(people') <= 2 * MaxEdges

LoadOf == \E k \in LoadFileArgs : Load(k)

NextLoad == CreateOf \/ LinkParentChildOf \/ LoadOf

\* the load specification: files are loaded over graphs built by create and
\* link calls
SpecLoad == Init /\ [][NextLoad]_vars

\* under the tree specification the calls that build the graph are given
\* valid arguments: a name, and ids of persons in the collection
CreateIn == next_id <= MaxTreeId /\ created < MaxTreeId /\ AddPerson(NameOnly(<<"A">>))

LinkParentChildIn ==
  \E p, c \in Ids(people) :
    p # c /\ AddParentChild(p, c) /\ EdgeEntries(people') <= 2 * MaxTreeEdges

LinkSpouseIn ==
  \E p, q \in Ids(people) :
    p # q /\ AddSpouse(p, q) /\ EdgeEntries(people') <= 2 * MaxTreeEdges

RemoveIn == \E id \in Ids(people) : RemovePerson(id)

\* as cli.py does it: the file is loaded into a new FamilyTree
LoadIn == last.op = "init" /\ \E k \in TreeFileArgs : Load(k)

DetailsIn == \E id \in Ids(people) : GetPersonDetails(id)

TreeData == \E root_id \in RootArgs : GetTreeData(root_id)

NextTree ==
  CreateIn \/ LinkParentChildIn \/ LinkSpouseIn \/ RemoveIn \/ LoadIn \/ DetailsIn \/ TreeData

\* the tree specification: details and trees are asked of graphs built by
\* create, link and remove calls and of graphs loaded
SpecTree == Init /\ [][NextTree]_vars

\* as cli.py does it: the file is loaded into a new FamilyTree
LoadUp == last.op = "init" /\ \E k \in UpdateFileArgs : Load(k)

UpdateUp == \E id \in UpdateIdArgs, k \in DOMAIN UpdateCalls : UpdatePerson(id, UpdateCalls[k])

NextUpdate == LoadUp \/ UpdateUp

\* the update specification: the persons of a loaded graph are updated
SpecUpdate == Init /\ [][NextUpdate]_vars

\* the arguments of a call of validate_death_year that is about to be made
InitYears ==
  /\ people = <<>>
  /\ next_id = 1
  /\ \E d, b \in YearArgs :
       last = [op |-> "args", a |-> d, b |-> b, kind |-> "ok", field |-> "", ret |-> None,
               n |-> 0]
  /\ details = NoDetails
  /\ forest = <<>>
  /\ created = 0
  /\ removed = {}

\* validate_death_year(last.a, last.b): a, b and ret are Optional values
ValidateDeathYear ==
  /\ last.op = "args"
  /\ \E r \in {validate_death_year(last.a, last.b)} :
       last' = [op |-> "validate_death_year", a |-> last.a, b |-> last.b,
                kind |-> r.kind, field |-> r.field, ret |-> r.v, n |-> 0]
  /\ UNCHANGED <<people, next_id, details, forest, created, removed>>

\* the year specification: validate_death_year is applied to arguments
\* drawn from YearArgs
SpecYears == InitYears /\ [][ValidateDeathYear]_vars

----------------------------------------------------------------------------
(* Properties *)

\* the person with this id (the id is in the collection)
P(id) == people[IndexOf(people, id)]

LinkOps == {"add_parent_child", "add_spouse"}

\* the calls that take ids
IdOps == LinkOps \cup {"remove_person", "update_person", "get_person_details"}

\* every edge list of every person
EdgeLists(ps) ==
  {ps[i].parent_ids : i \in DOMAIN ps} \cup {ps[i].child_ids : i \in DOMAIN ps}
    \cup {ps[i].spouse_ids : i \in DOMAIN ps}

\* C1: in every reachable state of the graph the edges are mirrored: for all
\* persons A, B of the collection, A is in B.parent_ids iff B is in
\* A.child_ids, and A is in B.spouse_ids iff B is in A.spouse_ids.
C1_EdgesMirrored ==
  \A i, j \in DOMAIN people :
    /\ Contains(people[j].parent_ids, people[i].id)
         <=> Contains(people[i].child_ids, people[j].id)
    /\ Contains(people[j].spouse_ids, people[i].id)
         <=> Contains(people[i].spouse_ids, people[j].id)

\* C1 witness: after a removal, a parent-child edge and a spouse edge are
\* both present.
C1_Witness ==
  /\ removed # {}
  /\ \E i, j \in DOMAIN people : Contains(people[i].child_ids, people[j].id)
  /\ \E i, j \in DOMAIN people : Contains(people[i].spouse_ids, people[j].id)

\* C2: after a successful remove_person(id) the id is not in the collection
\* and no remaining edge list contains it; and in every reachable state
\* every id stored in an edge list is the id of a person of the collection.
C2_RemovalScrubs ==
  /\ (last.op = "remove_person" /\ last.kind = "ok") =>
       /\ last.a \notin Ids(people)
       /\ \A l \in EdgeLists(people) : ~Contains(l, last.a)
  /\ \A l \in EdgeLists(people) : \A k \in DOMAIN l : l[k] \in Ids(people)

\* C2 witness: a person that two edge-list entries of other persons pointed
\* at has just been removed, and others remain.
C2_Witness ==
  /\ last.op = "remove_person" /\ last.kind = "ok" /\ last.n >= 2
  /\ people # <<>>

\* C3: the k-th successful create returns id k, whatever was called in
\* between; next_id is one more than the number of successful creates (so it
\* grows by one per successful create and never otherwise); the ids of the
\* collection are distinct, below next_id, and never those of removed persons.
C3_SequentialIds ==
  /\ (last.op = "add_person" /\ last.kind = "ok") => last.ret = created
  /\ next_id = created + 1
  /\ \A i, j \in DOMAIN people : people[i].id = people[j].id => i = j
  /\ \A i \in DOMAIN people : people[i].id < next_id /\ people[i].id \notin removed

\* C3 witness: the third successful create has just returned, after a
\* removal left fewer persons than ids assigned.
C3_Witness ==
  /\ last.op = "add_person" /\ last.kind = "ok" /\ last.ret = 3
  /\ removed # {}
  /\ Len(people) < created

\* no person is in one of their own edge lists
NoSelfEdge ==
  \A i \in DOMAIN people :
    /\ ~Contains(people[i].parent_ids, people[i].id)
    /\ ~Contains(people[i].child_ids, people[i].id)
    /\ ~Contains(people[i].spouse_ids, people[i].id)

\* a link call with the same id twice raises the self-relationship error and
\* changes nothing
SelfLinkRejected ==
  (last'.op \in LinkOps /\ last'.a = last'.b) =>
    /\ last'.kind = "self"
    /\ people' = people /\ next_id' = next_id

\* C4: for every id x, present or absent, link_parent_child(x, x) and
\* link_spouse(x, x) fail with the self-relationship error and leave the
\* graph unchanged; no person is ever in one of their own edge lists.
C4_SelfRejected == [][SelfLinkRejected]_vars /\ []NoSelfEdge

\* C4 witness: link_parent_child(x, x) has just failed for a person x who
\* is in the collection and has edges.
C4_Witness ==
  /\ last.op = "add_parent_child" /\ last.a = last.b /\ last.kind = "self"
  /\ last.a \in Ids(people)
  /\ P(last.a).spouse_ids # <<>>

\* the call the step makes is given an id that is not in the collection
AbsentId ==
  /\ last'.op \in IdOps
  /\ \/ last'.a \notin Ids(people)
     \/ last'.op \in LinkOps /\ last'.b \notin Ids(people)

\* C5 as claimed: every call given an absent id fails with the not-found
\* error and leaves the graph unchanged.
C5_Original ==
  [][AbsentId => (last'.kind = "not_found" /\ people' = people /\ next_id' = next_id)]_vars

\* C5 as amended: a call given an absent id fails and leaves the graph
\* unchanged; the error is the self-relationship error when a link call is
\* given the same id twice, and the not-found error otherwise.
C5_AbsentIdRejected ==
  [][AbsentId =>
       /\ last'.kind = (IF last'.op \in LinkOps /\ last'.a = last'.b
                        THEN "self" ELSE "not_found")
       /\ people' = people /\ next_id' = next_id]_vars

\* C5 witness: link_parent_child(p, c) has just failed as not found with p
\* in the collection and c absent.
C5_Witness ==
  /\ last.op = "add_parent_child" /\ last.kind = "not_found" /\ last.field = "Child"
  /\ last.a \in Ids(people) /\ last.b \notin Ids(people)

\* no edge list holds an id twice
NoDuplicateEdge ==
  \A l \in EdgeLists(people) : \A k, m \in DOMAIN l : l[k] = l[m] => k = m

\* the edge a link call asks for is there already (for spouses: either way)
EdgePresent(op, a, b) ==
  /\ a \in Ids(people) /\ b \in Ids(people) /\ a # b
  /\ IF op = "add_parent_child"
     THEN Contains(P(a).child_ids, b) /\ Contains(P(b).parent_ids, a)
     ELSE Contains(P(a).spouse_ids, b) /\ Contains(P(b).spouse_ids, a)

\* a link call for an edge that is present succeeds and changes nothing
RelinkChangesNothing ==
  (last'.op \in LinkOps /\ EdgePresent(last'.op, last'.a, last'.b)) =>
    last'.kind = "ok" /\ people' = people /\ next_id' = next_id

\* C6: linking a second time (for spouses also with the arguments swapped)
\* leaves the graph as the first call left it, and no edge list ever holds
\* an id twice: each edge is there exactly once.
C6_Idempotent == [][RelinkChangesNothing]_vars /\ []NoDuplicateEdge

\* C6 witness: link_spouse(b, a) has just succeeded without appending
\* anything, a and b being spouses already, each once in the other's list.
C6_Witness ==
  /\ last.op = "add_spouse" /\ last.kind = "ok" /\ last.n = 0
  /\ last.a > last.b
  /\ Count(P(last.a).spouse_ids, last.b) = 1
  /\ Count(P(last.b).spouse_ids, last.a) = 1

\* C7: when update_person raises a ValidationError, no field of the person
\* has changed (nor anything else in the collection), also when an earlier
\* field of the same call was valid.
C7_NoPartialUpdate ==
  [][(last'.op = "update_person" /\ last'.kind = "validation") => people' = people]_vars

\* C8: a create that fails validation stores no person and consumes no id:
\* the collection and next_id are as before, so the next successful create
\* gets the id it would have got without the failed call.
C8_FailedCreateChangesNothing ==
  [][(last'.op = "add_person" /\ last'.kind = "validation") =>
       (people' = people /\ next_id' = next_id)]_vars

\* C8 witness: a create has just failed at a late validator (death_date)
\* with a person in the collection.
C8_Witness ==
  /\ last.op = "add_person" /\ last.kind = "validation" /\ last.field = "death_date"
  /\ people # <<>>

\* C9: every present birth_year and death_year is within [1500, 2100], and
\* a person with both has death_year >= birth_year.
C9_YearsOrdered ==
  \A i \in DOMAIN people :
    /\ people[i].birth_year # None =>
         (1500 <= people[i].birth_year[1] /\ people[i].birth_year[1] <= 2100)
    /\ people[i].death_year # None =>
         (1500 <= people[i].death_year[1] /\ people[i].death_year[1] <= 2100)
    /\ (people[i].birth_year # None /\ people[i].death_year # None) =>
         people[i].death_year[1] >= people[i].birth_year[1]

\* C10: saving the graph and loading the document into a fresh graph
\* succeeds and gives the same persons (ids, fields, edge lists) and the
\* same next_id.
C10_RoundTrip ==
  /\ load(<<>>, 1, save(people, next_id)).res.ok
  /\ load(<<>>, 1, save(people, next_id)).people = people
  /\ load(<<>>, 1, save(people, next_id)).next_id = next_id

\* C11: a load that raises (unparsable text, an entry without id or name,
\* an entry whose fields fail validation) raises the load error and leaves
\* the collection and next_id as they were before the call.
C11_FailedLoadChangesNothing ==
  [][(last'.op = "load" /\ last'.kind # "ok")
       => (last'.kind = "load_error" /\ people' = people /\ next_id' = next_id)]_vars

\* the nodes of a tree, the root first, and those of a forest
RECURSIVE NodesOf(_)
RECURSIVE NodesOfAll(_)
NodesOf(node) == <<node>> \o NodesOfAll(node.children)

NodesOfAll(nodes) ==
  IF nodes = <<>> THEN <<>> ELSE NodesOf(Head(nodes)) \o NodesOfAll(Tail(nodes))

\* the places in the forest where the person is an expanded node
Expansions(nodes, id) ==
  {i \in DOMAIN NodesOfAll(nodes) :
     NodesOfAll(nodes)[i].person = id /\ ~NodesOfAll(nodes)[i].truncated}

\* the last call was get_tree_data and it returned a forest
TreeReturned == last.op = "get_tree_data" /\ last.kind = "ok"

\* C12: in the forest get_tree_data returns, with or without root_id, each
\* person is an expanded node (truncated = false) at most once; every other
\* occurrence of the person is a truncated leaf.
C12_ExpandedOnce ==
  TreeReturned => \A id \in Ids(people) : Cardinality(Expansions(forest, id)) <= 1

\* a parent-child cycle of two persons
InCycle(ps, a, b) ==
  /\ a \in Ids(ps) /\ b \in Ids(ps) /\ a # b
  /\ Contains(ps[IndexOf(ps, a)].child_ids, b)
  /\ Contains(ps[IndexOf(ps, b)].child_ids, a)

\* in the nodes of one tree, the root first: a node is truncated exactly
\* when its person was met before it, and a truncated node is a leaf
\* without spouses
RevisitsTruncated(ns) ==
  \A i \in DOMAIN ns :
    /\ ns[i].truncated <=> \E j \in 1..(i - 1) : ns[j].person = ns[i].person
    /\ ns[i].truncated => ns[i].children = <<>> /\ ns[i].spouses = <<>>

\* C13: get_tree_data returns (it terminates) on every graph, also one with
\* a parent-child cycle, with or without root_id: every root node is
\* expanded (truncated = false), within a tree a person met again is a node
\* with truncated = true, no children and no spouses, and no tree has more
\* expanded nodes than there are persons.
C13_CycleSafe ==
  TreeReturned =>
    \A t \in DOMAIN forest :
      /\ ~forest[t].truncated
      /\ RevisitsTruncated(NodesOf(forest[t]))
      /\ Cardinality({i \in DOMAIN NodesOf(forest[t]) : ~NodesOf(forest[t])[i].truncated})
           <= Cardinality(Ids(people))

\* a forest returned for a graph with the cycle 1 -> 2 -> 1, where the
\* second visit of a person is a truncated node
C13_Witness ==
  /\ TreeReturned
  /\ InCycle(people, 1, 2)
  /\ \E i \in DOMAIN NodesOfAll(forest) : NodesOfAll(forest)[i].truncated

\* C14: get_tree_data with a root_id that is given and is not the id of a
\* person in the collection, the empty collection included, fails with the
\* not-found error.
C14_AbsentRootRejected ==
  (last.op = "get_tree_data" /\ last.a # -1 /\ last.a \notin Ids(people))
    => last.kind = "not_found"

\* the persons at the roots of a forest, in its order
RootIds(nodes) == [i \in DOMAIN nodes |-> nodes[i].person]

\* the ids of the persons without parents, in storage order
Parentless(ps) == SelectSeq([i \in DOMAIN ps |-> ps[i].id],
                            LAMBDA x : ps[IndexOf(ps, x)].parent_ids = <<>>)

\* C15: get_tree_data without root_id returns, on a collection that is not
\* empty, one tree per person whose parent_ids is empty, in storage order,
\* or one tree rooted at the first person in storage order when there is no
\* such person; with the id of a person it returns one tree rooted at that
\* person; without root_id on the empty collection it returns the empty
\* sequence.
C15_Roots ==
  TreeReturned =>
    /\ (last.a = -1 /\ people = <<>>) => forest = <<>>
    /\ (last.a = -1 /\ people # <<>> /\ Parentless(people) # <<>>)
         => RootIds(forest) = Parentless(people)
    /\ (last.a = -1 /\ people # <<>> /\ Parentless(people) = <<>>)
         => RootIds(forest) = <<people[1].id>>
    /\ last.a \in Ids(people) => RootIds(forest) = <<last.a>>

\* a forest of two trees returned without root_id for three persons, one of
\* whom has a parent
C15_Witness ==
  /\ TreeReturned /\ last.a = -1
  /\ Len(people) = 3
  /\ Len(forest) = 2

\* the same for a loaded collection whose storage order is not the order
\* of the ids
C15_WitnessOrder ==
  /\ TreeReturned /\ last.a = -1
  /\ RootIds(forest) = <<2, 1>>

\* C16: when get_tree_data is called without root_id and every person has
\* at least one parent, every person of the collection is a node somewhere
\* in the forest returned.
C16_FallbackShowsAll ==
  (/\ TreeReturned /\ last.a = -1
   /\ people # <<>>
   /\ \A i \in DOMAIN people : people[i].parent_ids # <<>>)
    => \A id \in Ids(people) :
         \E i \in DOMAIN NodesOfAll(forest) : NodesOfAll(forest)[i].person = id

\* the last call was get_person_details and it returned
DetailsReturned == last.op = "get_person_details" /\ last.kind = "ok"

\* q is a person of the collection and a parent of x by x.parent_ids
ParentOf(q, x) == q \in Ids(people) /\ Contains(P(x).parent_ids, q)

\* C17: for a person x of the collection, the siblings get_person_details
\* returns are exactly the persons y # x of the collection that are in the
\* child_ids of some parent in x.parent_ids that is in the collection, each
\* once; a person without parents has none; when x has one parent, whose
\* children are exactly x and y, the siblings are y alone.
C17_Siblings ==
  DetailsReturned =>
    /\ details.siblings =
         {y \in Ids(people) \ {last.a} :
            \E q \in Ids(people) : ParentOf(q, last.a) /\ Contains(P(q).child_ids, y)}
    /\ P(last.a).parent_ids = <<>> => details.siblings = {}
    /\ \A q, y \in Ids(people) :
         (/\ P(last.a).parent_ids = <<q>>
          /\ y # last.a
          /\ P(q).child_ids \in {<<last.a, y>>, <<y, last.a>>})
           => details.siblings = {y}

\* the siblings of a person who shares two parents with another: the
\* parents 1 and 2 both have the children 3 and 4
C17_Witness ==
  /\ DetailsReturned /\ last.a = 3
  /\ {1, 2, 3, 4} \subseteq Ids(people)
  /\ ParentOf(1, 3) /\ ParentOf(2, 3)
  /\ Contains(P(1).child_ids, 4) /\ Contains(P(2).child_ids, 4)
  /\ details.siblings = {4}

\* the siblings of the two children of one parent, built by link calls
C17_WitnessLinked ==
  /\ DetailsReturned /\ last.a = 2
  /\ Ids(people) = {1, 2, 3}
  /\ P(1).child_ids = <<2, 3>>
  /\ P(2).parent_ids = <<1>>
  /\ details.siblings = {3}

\* the ids of a list that are persons of the collection, in its order
RECURSIVE Present(_)
Present(ids) ==
  IF ids = <<>> THEN <<>>
  ELSE (IF Head(ids) \in Ids(people) THEN <<Head(ids)>> ELSE <<>>) \o Present(Tail(ids))

\* John, Mary and Mike created, then add_spouse(1, 2), add_parent_child(1, 3)
\* and add_parent_child(2, 3)
JohnMaryMike ==
  add_parent_child(
    add_parent_child(
      add_spouse(
        add_person(
          add_person(
            add_person(<<>>, 1, NameOnly(<<"J", "o", "h", "n">>)).people,
            2, NameOnly(<<"M", "a", "r", "y">>)).people,
          3, NameOnly(<<"M", "i", "k", "e">>)).people,
        1, 2).people,
      1, 3).people,
    2, 3).people

\* C18: for a person x of the collection, get_person_details returns as
\* parents, spouses and children the ids of x.parent_ids, x.spouse_ids and
\* x.child_ids that are persons of the collection, in the order of those
\* lists; for John, Mary and Mike linked as above, the details of 3 are the
\* parents John and Mary, no siblings and no children.
C18_Details ==
  /\ DetailsReturned =>
       /\ details.parents = Present(P(last.a).parent_ids)
       /\ details.spouses = Present(P(last.a).spouse_ids)
       /\ details.children = Present(P(last.a).child_ids)
  /\ get_person_details(JohnMaryMike, 3).details =
       [parents |-> <<1, 2>>, spouses |-> <<>>, children |-> <<>>, siblings |-> {}]
  /\ JohnMaryMike[1].name = <<"J", "o", "h", "n">>
  /\ JohnMaryMike[2].name = <<"M", "a", "r", "y">>

\* the details of a person whose parent_ids name an id that is no person:
\* the id is left out and the order of the others is kept
C18_Witness ==
  /\ DetailsReturned /\ last.a = 4
  /\ P(4).parent_ids = <<1, 9, 2>>
  /\ details.parents = <<1, 2>>

\* a list with every entry x deleted
Without(list, x) == SelectSeq(list, LAMBDA y : y # x)

\* the person is as other was, but for the id deleted from the edge lists
ScrubbedOf(person, other, id) ==
  person = [other EXCEPT !.parent_ids = Without(@, id),
                         !.child_ids = Without(@, id),
                         !.spouse_ids = Without(@, id)]

\* the step is a remove_person(id) that succeeded
Removed(id) == last'.op = "remove_person" /\ last'.kind = "ok" /\ last'.a = id

\* C19: a successful remove_person(id) leaves the collection as it was
\* minus id, in the same storage order; every remaining person keeps its
\* fields, and each of its edge lists is the list it was with id deleted,
\* the other ids in their order; next_id is unchanged.
C19_RemovalFrame ==
  [][\A id \in Ids(people) :
       Removed(id) =>
         /\ [i \in DOMAIN people' |-> people'[i].id]
              = Without([i \in DOMAIN people |-> people[i].id], id)
         /\ \A i \in DOMAIN people' :
              ScrubbedOf(people'[i], P(people'[i].id), id)
         /\ next_id' = next_id]_vars

\* a person named in three lists of others, who differ in their fields and
\* keep other ids in their lists, has been removed
C19_Witness ==
  /\ last.op = "remove_person" /\ last.kind = "ok" /\ last.n >= 3
  /\ \E i, j \in DOMAIN people :
       /\ people[i].name # people[j].name
       /\ Len(people[i].child_ids) >= 2
       /\ people[j].parent_ids # <<>>

\* the step is a load that returned True; Document is what it read
LoadedTrue == last'.op = "load" /\ last'.kind = "ok" /\ last'.ret = 1

Document == Files[last'.a].data

Entries == DictGet(Document, "people", <<>>)

\* the entries of a list, each once, in the order of their first occurrence
RECURSIVE Distinct(_)
Distinct(list) ==
  IF list = <<>> THEN <<>>
  ELSE Distinct(SubSeq(list, 1, Len(list) - 1))
       \o (IF Contains(SubSeq(list, 1, Len(list) - 1), list[Len(list)]) THEN <<>>
           ELSE <<list[Len(list)]>>)

\* the last entry of the document with this id
LastEntry(id) ==
  Entries[CHOOSE k \in DOMAIN Entries :
            Entries[k].id = id /\ \A j \in (k + 1)..Len(Entries) : Entries[j].id # id]

\* the claim as written: after a successful load the collection holds
\* exactly the persons of the document, every entry under its own id, and
\* next_id is the document's
C20_Original ==
  [][LoadedTrue =>
       /\ Ids(people') = {Entries[k].id : k \in DOMAIN Entries}
       /\ \A k \in DOMAIN Entries :
            people'[IndexOf(people', Entries[k].id)] = from_dict(Entries[k]).v
       /\ next_id' = DictGet(Document, "next_id", 1)]_vars

\* C20: after a successful load the collection holds one person for each id
\* of the document, in the order the ids first occur in it, and that person
\* is the one built from the last entry with the id; next_id is the
\* document's, or 1 when it has none; no person of the state before the
\* call remains unless the document names its id.
C20_LoadReplaces ==
  [][LoadedTrue =>
       /\ [i \in DOMAIN people' |-> people'[i].id]
            = Distinct([k \in DOMAIN Entries |-> Entries[k].id])
       /\ \A i \in DOMAIN people' :
            people'[i] = from_dict(LastEntry(people'[i].id)).v
       /\ next_id' = DictGet(Document, "next_id", 1)]_vars

\* the saved graph of 2 and 3 has been loaded over two persons created
\* before: 1 is gone
C20_Witness ==
  /\ last.op = "load" /\ last.kind = "ok" /\ last.ret = 1
  /\ created = 2
  /\ Ids(people) = {2, 3}
  /\ P(2).name = <<"D">> /\ P(2).child_ids = <<3>>
  /\ next_id = 4

\* the step is a load of a file that does not exist
LoadOfNothing == last'.op = "load" /\ ~Files[last'.a].exists

\* C21: load of a file that does not exist returns False, raises nothing
\* and leaves the collection and next_id as they were, whatever the graph.
C21_MissingFileIgnored ==
  [][LoadOfNothing =>
       /\ last'.kind = "ok" /\ last'.ret = 0
       /\ people' = people /\ next_id' = next_id]_vars

\* load of a file that does not exist has just returned False over two
\* persons joined by an edge
C21_Witness ==
  /\ last.op = "load" /\ ~Files[last.a].exists
  /\ last.kind = "ok" /\ last.ret = 0
  /\ Len(people) = 2 /\ next_id = 3
  /\ EdgeEntries(people) = 2

\* validate_death_year(last.a, last.b) has been called
DeathYearCalled == last.op = "validate_death_year"

\* the claim as written: validate_death_year(d, b) raises exactly when both
\* are present and d < b, passes when either is None, and returns d when it
\* does not raise
C22_Original ==
  DeathYearCalled =>
    /\ last.kind # "ok" <=> (last.a # None /\ last.b # None /\ last.a[1] < last.b[1])
    /\ (last.a = None \/ last.b = None) => (last.kind = "ok" /\ last.ret = last.a)
    /\ last.kind = "ok" => last.ret = last.a

\* C22: for d and b each None or an integer, validate_death_year(d, b)
\* raises a ValidationError on death_year exactly when d is present and
\* either d is outside [1500, 2100] or b is present and d < b (b itself is
\* not range-checked); with d None it returns None whatever b is; when it
\* does not raise it returns d unchanged.
C22_DeathYear ==
  DeathYearCalled =>
    /\ last.kind # "ok" <=>
         /\ last.a # None
         /\ \/ last.a[1] < 1500 \/ last.a[1] > 2100
            \/ last.b # None /\ last.a[1] < last.b[1]
    /\ last.kind # "ok" => (last.kind = "validation" /\ last.field = "death_year")
    /\ last.a = None => (last.kind = "ok" /\ last.ret = None)
    /\ last.kind = "ok" => last.ret = last.a

\* validate_death_year(1950, 1950) has returned 1950
C22_Witness ==
  /\ DeathYearCalled
  /\ last.a = Some(1950) /\ last.b = Some(1950)
  /\ last.kind = "ok" /\ last.ret = Some(1950)

\* validate_death_year(1950, 1951) has raised
C22_WitnessRaised ==
  /\ DeathYearCalled
  /\ last.a = Some(1950) /\ last.b = Some(1951)
  /\ last.kind = "validation"

\* the person without its edge lists
NonEdgeFields(person) ==
  [person EXCEPT !.parent_ids = <<>>, !.spouse_ids = <<>>, !.child_ids = <<>>]

\* the list as it is after x was appended unless it was there
WithAppended(list, x) == IF Contains(list, x) THEN list ELSE Append(list, x)

\* what add_parent_child(a, b) may do to the edge lists of person `old`
ParentChildEdges(new, old, a, b) ==
  /\ new.spouse_ids = old.spouse_ids
  /\ new.child_ids = (IF old.id = a THEN WithAppended(old.child_ids, b) ELSE old.child_ids)
  /\ new.parent_ids = (IF old.id = b THEN WithAppended(old.parent_ids, a) ELSE old.parent_ids)

\* what add_spouse(a, b) may do to the edge lists of person `old`
SpouseEdges(new, old, a, b) ==
  /\ new.parent_ids = old.parent_ids
  /\ new.child_ids = old.child_ids
  /\ new.spouse_ids = (IF old.id = a THEN WithAppended(old.spouse_ids, b)
                       ELSE IF old.id = b THEN WithAppended(old.spouse_ids, a)
                       ELSE old.spouse_ids)

\* the step is a link call that succeeded
Linked == last'.op \in LinkOps /\ last'.kind = "ok"

\* C23: a successful add_parent_child(p, c) changes at most p.child_ids (c
\* appended at the end) and c.parent_ids (p appended at the end), and a
\* successful add_spouse(a, b) at most a.spouse_ids and b.spouse_ids (the
\* other id appended at the end); the other fields of every person, the
\* edge lists of every other person, the ids of the collection in their
\* order, and next_id are unchanged.
C23_LinkFrame ==
  [][Linked =>
       /\ next_id' = next_id
       /\ DOMAIN people' = DOMAIN people
       /\ \A i \in DOMAIN people :
            /\ NonEdgeFields(people'[i]) = NonEdgeFields(people[i])
            /\ IF last'.op = "add_parent_child"
               THEN ParentChildEdges(people'[i], people[i], last'.a, last'.b)
               ELSE SpouseEdges(people'[i], people[i], last'.a, last'.b)]_vars

\* add_parent_child(1, c) has just appended c after the child 1 had already,
\* a third person staying as it was
C23_Witness ==
  /\ last.op = "add_parent_child" /\ last.kind = "ok" /\ last.n = 2
  /\ last.a = 1 /\ last.a \in Ids(people)
  /\ Len(P(1).child_ids) = 2 /\ P(1).child_ids[2] = last.b

\* add_spouse has just appended to the lists of two persons, one of whom
\* has a child
C23_WitnessSpouse ==
  /\ last.op = "add_spouse" /\ last.kind = "ok" /\ last.n = 2
  /\ Len(people) = 3
  /\ \E i \in DOMAIN people : people[i].child_ids # <<>> /\ people[i].spouse_ids # <<>>

\* the fields update_person takes an argument for
FieldNames ==
  {"name", "birth_year", "death_year", "gender", "birth_date", "death_date", "birth_city"}

\* the step is a call of update_person, whatever its outcome
UpdateCalled == last'.op = "update_person"

\* the ids of the collection in storage order
IdsInOrder(ps) == [i \in DOMAIN ps |-> ps[i].id]

\* every key of the collection is there once (the key of an entry is the
\* id of its person)
KeysAreIds == \A i, j \in DOMAIN people : people[i].id = people[j].id => i = j

\* C24: update_person(id, ...), whether it returns or raises, leaves the
\* person's id, parent_ids, spouse_ids and child_ids and every field whose
\* argument was None as they were, leaves every other person as it was, and
\* leaves next_id and the ids of the collection (in their order) as they
\* were; every person is stored once, under its id.
C24_UpdateFrame ==
  /\ [][UpdateCalled =>
          /\ next_id' = next_id
          /\ IdsInOrder(people') = IdsInOrder(people)
          /\ \A i \in DOMAIN people :
               /\ people[i].id # last'.a => people'[i] = people[i]
               /\ people'[i].parent_ids = people[i].parent_ids
               /\ people'[i].spouse_ids = people[i].spouse_ids
               /\ people'[i].child_ids = people[i].child_ids
               /\ \A f \in FieldNames :
                    last'.args[f] = None => people'[i][f] = people[i][f]]_vars
  /\ []KeysAreIds

\* update_person(2, name) has just returned: 2 has the new name, its gender
\* and edges, and 1 has all its fields
C24_Witness ==
  /\ last.op = "update_person" /\ last.kind = "ok" /\ last.a = 2
  /\ last.args.name # None /\ last.args.gender = None
  /\ P(2).name = <<"D">> /\ P(2).gender = Some(<<"F">>)
  /\ P(2).parent_ids = <<1>> /\ P(2).spouse_ids = <<1>>
  /\ P(1).name = <<"B", "o">> /\ P(1).birth_year = Some(1950)
  /\ P(1).birth_city = Some(<<"X">>)

\* update_person(1, name, birth_year) has just raised on birth_year after
\* the name was assigned
C24_WitnessRaised ==
  /\ last.op = "update_person" /\ last.kind = "validation" /\ last.a = 1
  /\ last.field = "birth_year"
  /\ P(1).name = <<"E">> /\ P(1).birth_year = Some(1950) /\ P(1).child_ids = <<2>>

\* the str ""
Empty == Some(<<>>)

\* the fields of which the claim says that "" clears them
Clearable == {"gender", "birth_city", "birth_date", "death_date"}

\* what update_person(id, ...) with these arguments did to person `old`
ClearsAndKeeps(new, old, a, kind, field) ==
  /\ a.name = Empty => (kind = "validation" /\ field = "name" /\ new.name = old.name)
  /\ \A f \in Clearable :
       (a[f] = Empty /\ \A g \in FieldNames \ {f} : a[g] = None)
         => (kind = "ok" /\ new[f] = None)
  /\ old.birth_year # None => new.birth_year # None
  /\ old.death_year # None => new.death_year # None

\* C25: for a person of the collection, update_person with "" for gender,
\* birth_city, birth_date or death_date (and nothing else) returns and
\* leaves that field None, whatever the person's stored fields;
\* update_person with "" for name raises a ValidationError on name and the
\* name is as it was; no call of update_person leaves a birth_year or
\* death_year None that was set.
C25_Clearing ==
  [][(UpdateCalled /\ last'.a \in Ids(people)) =>
       \A i \in DOMAIN people :
         people[i].id = last'.a =>
           ClearsAndKeeps(people'[i], people[i], last'.args, last'.kind, last'.field)]_vars

\* update_person(1, birth_date = "") has just cleared the birth date of a
\* person whose death date is set
C25_Witness ==
  /\ last.op = "update_person" /\ last.kind = "ok" /\ last.a = 1
  /\ last.args.birth_date = Empty
  /\ P(1).birth_date = None /\ P(1).death_date # None /\ P(1).birth_year # None

\* update_person(1, name = "") has just raised
C25_WitnessName ==
  /\ last.op = "update_person" /\ last.kind = "validation" /\ last.a = 1
  /\ last.args.name = Empty
  /\ P(1).name = <<"B", "o">>

\* update_person(1, death_year = 2001) has just returned
C25_WitnessYear ==
  /\ last.op = "update_person" /\ last.kind = "ok" /\ last.a = 1
  /\ last.args.death_year # None
  /\ P(1).death_year = Some(2001)

\* C26: in every state reached from the empty graph by create, link and
\* load calls, a load of a document without next_id included, next_id is
\* greater than every id of the collection (so that add_person stores the
\* new person under an id that is not in use).
C26_NextIdAbove == \A i \in DOMAIN people : people[i].id < next_id

\* the ids in the child_ids of the persons with an id in S
ChildrenOf(ps, S) == UNION {ChildIdSet(ps[i]) : i \in {j \in DOMAIN ps : ps[j].id \in S}}

\* the ids reached from those in S by following child_ids 1 to n times
RECURSIVE Descendants(_, _, _)
Descendants(ps, S, n) ==
  IF n = 0 THEN {}
  ELSE ChildrenOf(ps, S) \cup Descendants(ps, ChildrenOf(ps, S), n - 1)

\* C27: in every state reached from the empty graph by add_person,
\* add_parent_child, add_spouse, update_person and remove_person, no person
\* is reached from themselves by following child_ids one or more times.
C27_Acyclic ==
  \A i \in DOMAIN people :
    people[i].id \notin Descendants(people, {people[i].id}, Len(people))

\* the nodes of one tree, the root first: the children of an expanded node
\* are the persons of its person's child_ids, in that order; no person is
\* expanded twice; a truncated node's person is expanded before it
PreorderOf(ns) ==
  /\ \A i \in DOMAIN ns :
       ~ns[i].truncated => RootIds(ns[i].children) = Present(P(ns[i].person).child_ids)
  /\ \A i, j \in DOMAIN ns :
       (~ns[i].truncated /\ ~ns[j].truncated /\ ns[i].person = ns[j].person) => i = j
  /\ \A i \in DOMAIN ns :
       ns[i].truncated =>
         \E j \in 1..(i - 1) : ns[j].person = ns[i].person /\ ~ns[j].truncated

\* C28: in each tree get_tree_data returns, every expanded node has one
\* child node for each id of its person's child_ids that is a person of the
\* collection, in the order of that list; each person is expanded
\* (truncated = false) at most once in the tree; and the person of every
\* truncated node is an expanded node earlier in the preorder of the tree.
C28_Preorder ==
  TreeReturned => \A t \in DOMAIN forest : PreorderOf(NodesOf(forest[t]))

\* the tree of 1 for the graph in which 4 is reached along two paths and 1
\* from 4: 1, 2, 4, 1 (truncated), 3, 4 (truncated)
C28_Witness ==
  /\ TreeReturned
  /\ Len(forest) = 1
  /\ [i \in DOMAIN NodesOf(forest[1]) |->
        <<NodesOf(forest[1])[i].person, NodesOf(forest[1])[i].truncated>>]
       = << <<1, FALSE>>, <<2, FALSE>>, <<4, FALSE>>, <<1, TRUE>>, <<3, FALSE>>, <<4, TRUE>> >>

\* the siblings get_person_details(x) returns
SiblingsOf(x) == get_person_details(people, x).details.siblings

\* C29: in every state reached from the empty graph by create, update,
\* link and remove calls, and for all persons x and y of the collection, y
\* is among the siblings get_person_details(x) returns exactly when x is
\* among those get_person_details(y) returns, and x is never among its own.
C29_SiblingsSymmetric ==
  \A x, y \in Ids(people) :
    /\ y \in SiblingsOf(x) <=> x \in SiblingsOf(y)
    /\ x \notin SiblingsOf(x)

\* get_person_details(x) has just returned a sibling y, both children of
\* one parent
C29_Witness ==
  /\ DetailsReturned
  /\ \E y \in Ids(people) \ {last.a} :
       /\ details.siblings = {y}
       /\ SiblingsOf(y) = {last.a}
       /\ P(y).parent_ids = P(last.a).parent_ids

\* the roles a link call names in its not-found error
FirstRole(op) == IF op = "add_parent_child" THEN "Parent" ELSE "First person"

SecondRole(op) == IF op = "add_parent_child" THEN "Child" ELSE "Second person"

\* the outcome of a link call given the ids a and b, by what is in the
\* collection when it is made
LinkOutcome(op, a, b, kind, role) ==
  /\ a = b => kind = "self"
  /\ (a # b /\ a \notin Ids(people)) => (kind = "not_found" /\ role = FirstRole(op))
  /\ (a # b /\ a \in Ids(people) /\ b \notin Ids(people))
       => (kind = "not_found" /\ role = SecondRole(op))
  /\ (a # b /\ a \in Ids(people) /\ b \in Ids(people)) => kind = "ok"

\* C30: a link call checks first that the ids differ, then that the first
\* id is a person, then the second: add_parent_child(x, x) and
\* add_spouse(x, x) report the self-relationship also when x is absent; with
\* two different absent ids add_parent_child reports the parent as not
\* found and add_spouse the first person; the child or second person is
\* reported only when the first id is a person.
C30_ErrorPrecedence ==
  [][last'.op \in LinkOps =>
       LinkOutcome(last'.op, last'.a, last'.b, last'.kind, last'.field)]_vars

\* add_parent_child(p, c) has just reported the parent as not found, p and
\* c being different ids that are both absent from a collection that is
\* not empty
C30_Witness ==
  /\ last.op = "add_parent_child" /\ last.kind = "not_found" /\ last.field = "Parent"
  /\ last.a # last.b
  /\ last.a \notin Ids(people) /\ last.b \notin Ids(people)
  /\ people # <<>>

\* add_spouse(a, b) has just reported the first person as not found, both
\* being absent
C30_WitnessSpouse ==
  /\ last.op = "add_spouse" /\ last.kind = "not_found" /\ last.field = "First person"
  /\ last.a # last.b
  /\ last.a \notin Ids(people) /\ last.b \notin Ids(people)

\* add_parent_child(x, x) has just reported the self-relationship, x being
\* absent
C30_WitnessSelf ==
  /\ last.op = "add_parent_child" /\ last.kind = "self"
  /\ last.a = last.b /\ last.a \notin Ids(people)

====
